---- MODULE Spec2Model ----
(***************************************************************************)
(* Model of apcaledge's activity reconciliation (src/src/main.rs):        *)
(* the day batcher activites_for_a_day, merge_partial_fills,               *)
(* associate_fees_with_trades, classify_fee, print_trade, print_non_trade  *)
(* and the driver loop of activities_list.                                 *)
(*                                                                         *)
(* Numbers (num_decimal::Num, exact rationals) are integers here: a        *)
(* quantity is a share count, a price and an amount are in one fixed unit. *)
(* `day` is activity.time().date_naive().  Option<T> is a sequence of      *)
(* length at most one.  A description string is the sequence of the        *)
(* lexical pieces the three regular expressions look at, left to right.    *)
(***************************************************************************)
EXTENDS Integers, Sequences, FiniteSets, TLC

VARIABLES
  force_separate_fees,  \* args.rs Activity::force_separate_fees
  debug_assertions,     \* build profile: are debug_assert!s compiled in
  feed,                 \* the records the remote feed holds, in delivery order
  direction,            \* request.direction
  after,                \* request.after
  page_token,           \* request.page_token
  activities,           \* the deque inside activites_for_a_day
  same_day,             \* first deque returned by activites_for_a_day
  other_day,            \* second deque returned by activites_for_a_day
  unprocessed,          \* activities_list: unprocessed
  pc,                   \* where the driver is
  stdout,               \* the journal blocks printed so far
  fetches,              \* the pages the feed has returned so far
  batches,              \* the batches handed to merge_partial_fills so far
  fn_pc,                \* function harness: which functions have been applied
  fn_input,             \* function harness: the batch given to merge_partial_fills
  fn_merged,            \* result of merge_partial_fills(fn_input)
  fn_remerged,          \* result of merge_partial_fills on fn_merged
  fn_reconciled,        \* result of the association step on fn_merged
  fn_printed            \* result of printing fn_reconciled

vars == <<force_separate_fees, debug_assertions, feed, direction, after,
          page_token, activities, same_day, other_day, unprocessed, pc, stdout,
          fetches, batches,
          fn_pc, fn_input, fn_merged, fn_remerged, fn_reconciled, fn_printed>>

pipeline_vars == <<feed, direction, after, page_token, activities, same_day,
                   other_day, unprocessed, pc, stdout, fetches, batches>>

fn_vars == <<fn_pc, fn_input, fn_merged, fn_remerged, fn_reconciled, fn_printed>>

----------------------------------------------------------------------------
(* Bounds of the model. *)

\* Longest batch given to the functions in SpecFn.
MaxBatch == 3

\* Largest number of records the feed holds in Spec.
MaxFeed == 3

----------------------------------------------------------------------------
(* Generic helpers. *)

None == <<>>

Some(x) == <<x>>

\* The value of a result variable before its function has been applied.
NotApplied == [applied |-> FALSE]

Range(s) == {s[k] : k \in 1..Len(s)}

\* VecDeque::remove(i) (1-based here).
Remove(s, i) == [k \in 1..(Len(s) - 1) |-> IF k < i THEN s[k] ELSE s[k + 1]]

RECURSIVE SumSeq(_)
SumSeq(s) == IF s = <<>> THEN 0 ELSE Head(s) + SumSeq(Tail(s))

SeqsUpTo(U, n) == UNION {[1..k -> U] : k \in 0..n}

\* The records of a sequence of templates, numbered by position: the feed's
\* activity id names the record's place in the feed.
Numbered(s) == [k \in 1..Len(s) |-> [s[k] EXCEPT !.id = k]]

Ids(s) == [k \in 1..Len(s) |-> s[k].id]

PositionOfId(acts, id) == CHOOSE k \in 1..Len(acts) : acts[k].id = id

----------------------------------------------------------------------------
(* The activity model: account_activities::{TradeActivity, NonTradeActivity}. *)

IsTrade(a) == a.kind = "Trade"

IsNonTrade(a) == a.kind = "NonTrade"

\* One order has one side and one symbol.
OrderSide(order_id) ==
  CASE order_id = "o1" -> "Sell"
    [] order_id = "o3" -> "ShortSell"
    [] OTHER -> "Buy"

OrderSymbol(order_id) == IF order_id = "o2" THEN "QQQ" ELSE "XYZ"

\* The registry file: symbol -> name.  QQQ is not in it.
registry == {"XYZ", "EFG"}

TradeActivity(order_id, price, quantity, cumulative_quantity, unfilled_quantity, day) ==
  [kind |-> "Trade", id |-> 0, order_id |-> order_id,
   symbol |-> OrderSymbol(order_id), side |-> OrderSide(order_id),
   price |-> price, quantity |-> quantity,
   cumulative_quantity |-> cumulative_quantity,
   unfilled_quantity |-> unfilled_quantity, day |-> day]

NonTradeActivity(type_, description, symbol, net_amount, day) ==
  [kind |-> "NonTrade", id |-> 0, type_ |-> type_, description |-> description,
   symbol |-> symbol, net_amount |-> net_amount, day |-> day]

\* Pieces of a description.
TafText(shares) == [piece |-> "TAF fee for proceed of N shares", shares |-> shares]

RegText(proceeds) == [piece |-> "REG fee for proceed of $P", proceeds |-> proceeds]

AdrText == [piece |-> "ADR Fees"]

OtherText == [piece |-> "other text"]

Fee(description, net_amount, day) ==
  NonTradeActivity("Fee", description, None, net_amount, day)

----------------------------------------------------------------------------
(* The regular expressions. *)

FirstPiece(description, piece) ==
  LET hits == {k \in 1..Len(description) : description[k].piece = piece}
  IN IF hits = {} THEN None
     ELSE Some(description[CHOOSE k \in hits : \A h \in hits : k <= h])

\* TAF_RE.captures(description) and the "shares" group parsed by Num::from_str:
\* the pattern is not anchored, the leftmost match is taken.
TAF_RE(description) ==
  LET m == FirstPiece(description, TafText(0).piece)
  IN IF m = None THEN None ELSE Some(m[1].shares)

\* REG_RE.captures(description) and the "proceeds" group parsed by Num::from_str.
REG_RE(description) ==
  LET m == FirstPiece(description, RegText(0).piece)
  IN IF m = None THEN None ELSE Some(m[1].proceeds)

\* ADR_RE.find(description).is_some(): the pattern is anchored at the start.
ADR_RE(description) ==
  Len(description) >= 1 /\ description[1].piece = AdrText.piece

----------------------------------------------------------------------------
(* merge_partial_fills *)

\* Faulty variant: the price of the candidate is not compared.
IsFinalFillOf_AnyPrice(candidate, trade) ==
  /\ candidate.order_id = trade.order_id
  /\ candidate.unfilled_quantity = 0

\* Faulty variant: any fill of the order at the price is taken, final or not.
IsFinalFillOf_AnyFill(candidate, trade) ==
  /\ candidate.order_id = trade.order_id
  /\ candidate.price = trade.price

\* The condition of the inner `if`: activities[j] is the "final" fill of the
\* order of trade, at the same price.
IsFinalFillOf(candidate, trade) ==
  /\ candidate.order_id = trade.order_id
  /\ candidate.price = trade.price
  /\ candidate.unfilled_quantity = 0

\* Faulty variant: only the activities after activities[i] are scanned.
MergeCandidate_LaterOnly(acts, i) ==
  LET js == {j \in (i + 1)..Len(acts) : /\ IsTrade(acts[j])
                                        /\ IsFinalFillOf(acts[j], acts[i])}
  IN IF js = {} THEN 0 ELSE CHOOSE j \in js : \A h \in js : j <= h

\* The inner `for j in 0..activities.len()`: the first j, other than i, that
\* holds the final fill for activities[i]; 0 when the loop runs to its end.
MergeCandidate(acts, i) ==
  LET js == {j \in 1..Len(acts) : /\ j # i
                                  /\ IsTrade(acts[j])
                                  /\ IsFinalFillOf(acts[j], acts[i])}
  IN IF js = {} THEN 0 ELSE CHOOSE j \in js : \A h \in js : j <= h

\* Faulty variant: the quantity of the partial fill is added twice.
MergeInto_AddsTwice(acts, i, j) ==
  Remove([acts EXCEPT ![j].quantity = @ + 2 * acts[i].quantity], i)

\* `candidate.quantity += quantity; activities.remove(i)`.
MergeInto(acts, i, j) ==
  Remove([acts EXCEPT ![j].quantity = @ + acts[i].quantity], i)

\* Faulty variant: the index is advanced after a removal.
IndexAfterRemoval_Advanced(i) == i + 1

\* `continue 'outer` after `activities.remove(i)`: i is not incremented, the
\* next activity has moved to index i.
IndexAfterRemoval(i) == i

\* The `'outer: while i < activities.len()` loop from index i on.  The result
\* is the deque and whether a debug_assert! panicked on the way.
RECURSIVE MergeLoop(_, _, _)
MergeLoop(acts, i, debug) ==
  IF i > Len(acts) THEN [activities |-> acts, panicked |-> FALSE]
  ELSE IF IsTrade(acts[i]) /\ acts[i].unfilled_quantity # 0
       THEN LET j == MergeCandidate(acts, i)
            IN IF j = 0 THEN MergeLoop(acts, i + 1, debug)
               ELSE IF debug /\ ~(/\ acts[j].side = acts[i].side
                                  /\ acts[j].symbol = acts[i].symbol
                                  /\ acts[j].quantity + acts[i].quantity
                                       <= acts[j].cumulative_quantity)
                    THEN [activities |-> <<>>, panicked |-> TRUE]
                    ELSE MergeLoop(MergeInto(acts, i, j), IndexAfterRemoval(i), debug)
       ELSE MergeLoop(acts, i + 1, debug)

merge_partial_fills(acts, debug) == MergeLoop(acts, 1, debug)

----------------------------------------------------------------------------
(* The account names (args.rs defaults). *)

investment_account == "Assets:Investments:Alpaca:Stock"

brokerage_account == "Assets:Alpaca Brokerage"

brokerage_fee_account == "Expenses:Broker:Fee"

dividend_account == "Income:Dividend"

sec_fee_account == "Expenses:Broker:SEC Fee"

finra_taf_account == "Expenses:Broker:FINRA TAF"

----------------------------------------------------------------------------
(* classify_fee *)

Ok(value) == [ok |-> TRUE, value |-> value]

Err(error) == [ok |-> FALSE, error |-> error]

\* Faulty variant: an ADR fee is posted to the SEC fee account.
classify_fee_AdrAsSec(non_trade) ==
  IF non_trade.description # None
  THEN LET description == non_trade.description[1]
       IN IF TAF_RE(description) # None THEN Ok(finra_taf_account)
          ELSE IF REG_RE(description) # None \/ ADR_RE(description)
               THEN Ok(sec_fee_account)
          ELSE Err("failed to classify fee account activity with description")
  ELSE Err("fee activity does not have a description")

\* Faulty variant: a fee without a description is posted to the brokerage fee account.
classify_fee_NoDescription(non_trade) ==
  IF non_trade.description # None
  THEN LET description == non_trade.description[1]
       IN IF TAF_RE(description) # None THEN Ok(finra_taf_account)
          ELSE IF REG_RE(description) # None THEN Ok(sec_fee_account)
          ELSE IF ADR_RE(description) THEN Ok(brokerage_fee_account)
          ELSE Err("failed to classify fee account activity with description")
  ELSE Ok(brokerage_fee_account)

\* Result<(account, description)>.
classify_fee(non_trade) ==
  IF non_trade.description # None
  THEN LET description == non_trade.description[1]
       IN IF TAF_RE(description) # None THEN Ok(finra_taf_account)
          ELSE IF REG_RE(description) # None THEN Ok(sec_fee_account)
          ELSE IF ADR_RE(description) THEN Ok(brokerage_fee_account)
          ELSE Err("failed to classify fee account activity with description")
  ELSE Err("fee activity does not have a description")

----------------------------------------------------------------------------
(* enum Activity and associate_fees_with_trades *)

\* impl From<account_activities::Activity> for Activity.
From(other) ==
  IF IsTrade(other) THEN [tag |-> "Trade", trade |-> other, fees |-> <<>>]
  ELSE [tag |-> "NonTrade", non_trade |-> other]

\* activities.into_iter().map(Activity::from).collect().
MapFrom(acts) == [k \in 1..Len(acts) |-> From(acts[k])]

\* Faulty variant: a fee matches every trade.
FeeMatchesTrade_Always(trade, shares, proceeds) == TRUE

\* The condition of the `if` in the inner loop: shares and proceeds are Options.
FeeMatchesTrade(trade, shares, proceeds) ==
  \/ Some(trade.quantity) = shares
  \/ Some(trade.price * trade.quantity) = proceeds

\* Faulty variant: the last matching trade is taken.
AssociateCandidate_Last(acts, shares, proceeds) ==
  LET js == {j \in 1..Len(acts) : /\ acts[j].tag = "Trade"
                                  /\ FeeMatchesTrade(acts[j].trade, shares, proceeds)}
  IN IF js = {} THEN 0 ELSE CHOOSE j \in js : \A h \in js : j >= h

\* The inner `for j in 0..activities.len()`: the first trade the fee matches;
\* 0 when the loop runs to its end.
AssociateCandidate(acts, shares, proceeds) ==
  LET js == {j \in 1..Len(acts) : /\ acts[j].tag = "Trade"
                                  /\ FeeMatchesTrade(acts[j].trade, shares, proceeds)}
  IN IF js = {} THEN 0 ELSE CHOOSE j \in js : \A h \in js : j <= h

\* Faulty variant: the fee is removed without being pushed to the trade.
AttachFee_DropsFee(acts, i, j) == Remove(acts, i)

\* `fees.push(non_trade); activities.remove(i)`.
AttachFee(acts, i, j) ==
  Remove([acts EXCEPT ![j].fees = Append(@, acts[i].non_trade)], i)

\* The `'outer: while i < activities.len()` loop from index i on.
RECURSIVE AssociateLoop(_, _)
AssociateLoop(acts, i) ==
  IF i > Len(acts) THEN Ok(acts)
  ELSE IF acts[i].tag = "NonTrade" /\ acts[i].non_trade.type_ = "Fee"
       THEN IF acts[i].non_trade.description # None
            THEN LET description == acts[i].non_trade.description[1]
                     taf == TAF_RE(description)
                     reg == REG_RE(description)
                     shares == IF taf # None THEN taf ELSE None
                     proceeds == IF taf # None THEN None ELSE reg
                     j == AssociateCandidate(acts, shares, proceeds)
                 IN IF taf = None /\ reg = None
                    THEN IF ADR_RE(description)
                         THEN AssociateLoop(acts, i + 1)
                         ELSE Err("description string could not be parsed")
                    ELSE IF j # 0
                         THEN AssociateLoop(AttachFee(acts, i, j), i)
                         ELSE AssociateLoop(acts, i + 1)
            ELSE Err("fee activity does not have a description")
       ELSE AssociateLoop(acts, i + 1)

associate_fees_with_trades(acts) == AssociateLoop(MapFrom(acts), 1)

\* Faulty variant: the flag is ignored.
Reconcile_AlwaysAssociate(acts, force) == associate_fees_with_trades(acts)

\* activities_list, the `if force_separate_fees` expression.
Reconcile(acts, force) ==
  IF force THEN Ok(MapFrom(acts)) ELSE associate_fees_with_trades(acts)

----------------------------------------------------------------------------
(* print_trade and print_non_trade.  A printed block is a record of its date *)
(* and its postings; `id` names the record it was printed for.  A posting of *)
(* shares has `shares` and `price`, a posting of money has `amount`, and a   *)
(* posting whose amount is left to the ledger has neither.                   *)

Printed(blocks) == [ok |-> TRUE, out |-> blocks]

PrintFailed(blocks, error) == [ok |-> FALSE, out |-> blocks, error |-> error]

\* Faulty variant: a short sale is signed like a purchase.
Multiplier_ShortSellAsBuy(side) ==
  CASE side = "Buy" -> 1
    [] side = "Sell" -> -1
    [] side = "ShortSell" -> 1

\* `let multiplier = match trade.side`.
Multiplier(side) ==
  CASE side = "Buy" -> 1
    [] side = "Sell" -> -1
    [] side = "ShortSell" -> -1

\* Faulty variant: total_fees adds up fee.net_amount, not its negation.
RECURSIVE FeePostings_TotalNotNegated(_)
FeePostings_TotalNotNegated(fees) ==
  IF fees = <<>> THEN [ok |-> TRUE, postings |-> <<>>, total_fees |-> 0]
  ELSE LET net_amount == -(Head(fees).net_amount)
           to == classify_fee(Head(fees))
           rest == FeePostings_TotalNotNegated(Tail(fees))
       IN IF ~to.ok THEN [ok |-> FALSE, postings |-> <<>>, total_fees |-> 0]
          ELSE [ok |-> rest.ok,
                postings |-> <<[account |-> to.value, amount |-> net_amount]>>
                               \o rest.postings,
                total_fees |-> Head(fees).net_amount + rest.total_fees]

\* The `for fee in fees` loop of print_trade: the postings printed, the total
\* of the fees, and whether classify_fee failed on the way.
RECURSIVE FeePostings(_)
FeePostings(fees) ==
  IF fees = <<>> THEN [ok |-> TRUE, postings |-> <<>>, total_fees |-> 0]
  ELSE LET net_amount == -(Head(fees).net_amount)
           to == classify_fee(Head(fees))
           rest == FeePostings(Tail(fees))
       IN IF ~to.ok THEN [ok |-> FALSE, postings |-> <<>>, total_fees |-> 0]
          ELSE [ok |-> rest.ok,
                postings |-> <<[account |-> to.value, amount |-> net_amount]>>
                               \o rest.postings,
                total_fees |-> net_amount + rest.total_fees]

print_trade(trade, fees) ==
  IF trade.symbol \notin registry
  THEN PrintFailed(<<>>, "symbol not present in registry")
  ELSE LET multiplier == Multiplier(trade.side)
           first == [account |-> investment_account,
                     shares |-> trade.quantity * multiplier,
                     price |-> trade.price]
           fee_lines == FeePostings(fees)
           last == [account |-> brokerage_account,
                    amount |-> (trade.price * trade.quantity * (-multiplier))
                                 - fee_lines.total_fees]
           block(postings) == [kind |-> "trade", id |-> trade.id,
                               date |-> trade.day, postings |-> postings]
       IN IF fee_lines.ok
          THEN Printed(<<block(<<first>> \o fee_lines.postings \o <<last>>)>>)
          ELSE PrintFailed(<<block(<<first>> \o fee_lines.postings)>>,
                           "failed to classify fee")

\* The arms of `match non_trade.type_` for Fee and Dividend, and the `_` arm
\* (an unsupported type is ignored).
print_non_trade(non_trade) ==
  IF non_trade.type_ = "Fee"
  THEN LET from == classify_fee(non_trade)
       IN IF ~from.ok THEN PrintFailed(<<>>, from.error)
          ELSE Printed(<<[kind |-> "fee", id |-> non_trade.id,
                          date |-> non_trade.day,
                          postings |-> <<[account |-> from.value,
                                          amount |-> -(non_trade.net_amount)],
                                         [account |-> brokerage_account]>>]>>)
  ELSE IF non_trade.type_ = "Dividend"
  THEN IF non_trade.symbol = None
       THEN PrintFailed(<<>>, "dividend entry does not have an associated symbol")
       ELSE IF non_trade.symbol[1] \notin registry
       THEN PrintFailed(<<>>, "symbol not present in registry")
       ELSE Printed(<<[kind |-> "dividend", id |-> non_trade.id,
                       date |-> non_trade.day,
                       postings |-> <<[account |-> dividend_account],
                                      [account |-> brokerage_account,
                                       amount |-> non_trade.net_amount]>>]>>)
  ELSE Printed(<<>>)

\* The body of `for activity in activities`.
PrintActivity(activity) ==
  IF activity.tag = "Trade" THEN print_trade(activity.trade, activity.fees)
  ELSE print_non_trade(activity.non_trade)

\* activities_list, the `for activity in activities` loop: it stops at the
\* first error, what was printed before stays printed.
RECURSIVE PrintAll(_)
PrintAll(acts) ==
  IF acts = <<>> THEN Printed(<<>>)
  ELSE LET head == PrintActivity(Head(acts))
           rest == PrintAll(Tail(acts))
       IN IF ~head.ok THEN head
          ELSE IF rest.ok THEN Printed(head.out \o rest.out)
               ELSE PrintFailed(head.out \o rest.out, rest.error)

----------------------------------------------------------------------------
(* The records the functions are applied to. *)

PartialFill(order_id, price, quantity, day) ==
  TradeActivity(order_id, price, quantity, quantity, 1, day)

FinalFill(order_id, price, quantity, cumulative_quantity, day) ==
  TradeActivity(order_id, price, quantity, cumulative_quantity, 0, day)

TradeTemplates(day) ==
  {PartialFill("o1", 2, 1, day), PartialFill("o1", 3, 1, day),
   FinalFill("o1", 2, 2, 3, day), FinalFill("o2", 2, 1, 1, day)}

FeeTemplates(day) ==
  {Fee(Some(<<TafText(2), OtherText>>), -1, day),
   Fee(Some(<<TafText(3), OtherText>>), -1, day),
   Fee(Some(<<RegText(4), OtherText>>), -2, day),
   Fee(Some(<<AdrText, OtherText>>), -1, day),
   Fee(Some(<<AdrText, TafText(2)>>), -1, day),
   Fee(Some(<<OtherText>>), -1, day),
   Fee(None, -1, day)}

DividendTemplates(day) ==
  {NonTradeActivity("Dividend", None, Some("EFG"), 3, day),
   NonTradeActivity("Dividend", None, Some("QQQ"), 3, day)}

FnUniverse == TradeTemplates(1) \cup FeeTemplates(1) \cup DividendTemplates(1)

----------------------------------------------------------------------------
(* SpecFn: merge_partial_fills, the association step and the printing loop  *)
(* applied to every batch of at most MaxBatch records of FnUniverse.        *)

PipelineIdle ==
  /\ feed = <<>>
  /\ direction = "Ascending"
  /\ after = None
  /\ page_token = None
  /\ activities = <<>>
  /\ same_day = <<>>
  /\ other_day = <<>>
  /\ unprocessed = <<>>
  /\ pc = "idle"
  /\ stdout = <<>>
  /\ fetches = <<>>
  /\ batches = <<>>

FnInit ==
  /\ force_separate_fees \in BOOLEAN
  /\ debug_assertions \in BOOLEAN
  /\ fn_input \in {Numbered(s) : s \in SeqsUpTo(FnUniverse, MaxBatch)}
  /\ fn_pc = "input"
  /\ fn_merged = NotApplied
  /\ fn_remerged = NotApplied
  /\ fn_reconciled = NotApplied
  /\ fn_printed = NotApplied
  /\ PipelineIdle

\* merge_partial_fills(fn_input).
FnMerge ==
  /\ fn_pc = "input"
  /\ fn_merged' = merge_partial_fills(fn_input, debug_assertions)
  /\ fn_pc' = IF fn_merged'.panicked THEN "panicked" ELSE "merged"
  /\ UNCHANGED <<force_separate_fees, debug_assertions, fn_input, fn_remerged,
                 fn_reconciled, fn_printed, pipeline_vars>>

\* merge_partial_fills applied to its own output.
FnMergeAgain ==
  /\ fn_pc = "merged"
  /\ fn_remerged' = merge_partial_fills(fn_merged.activities, debug_assertions)
  /\ fn_pc' = IF fn_remerged'.panicked THEN "panicked" ELSE "remerged"
  /\ UNCHANGED <<force_separate_fees, debug_assertions, fn_input, fn_merged,
                 fn_reconciled, fn_printed, pipeline_vars>>

\* The association step of activities_list on the merged batch.
FnReconcile ==
  /\ fn_pc = "remerged"
  /\ fn_reconciled' = Reconcile(fn_merged.activities, force_separate_fees)
  /\ fn_pc' = IF fn_reconciled'.ok THEN "reconciled" ELSE "failed"
  /\ UNCHANGED <<force_separate_fees, debug_assertions, fn_input, fn_merged,
                 fn_remerged, fn_printed, pipeline_vars>>

\* The printing loop of activities_list on the reconciled batch.
FnPrint ==
  /\ fn_pc = "reconciled"
  /\ fn_printed' = PrintAll(fn_reconciled.value)
  /\ fn_pc' = IF fn_printed'.ok THEN "printed" ELSE "failed"
  /\ UNCHANGED <<force_separate_fees, debug_assertions, fn_input, fn_merged,
                 fn_remerged, fn_reconciled, pipeline_vars>>

FnNext == FnMerge \/ FnMergeAgain \/ FnReconcile \/ FnPrint

SpecFn == FnInit /\ [][FnNext]_vars

----------------------------------------------------------------------------
(* The remote feed.  It holds the records of `feed` in delivery order; a    *)
(* request with page_token t is answered with some non-empty run of the      *)
(* records that follow the record with id t (all of them from the start      *)
(* when t is None), and with the empty page when none follows.               *)

FeedDays == {1, 2, 3}

FeedTemplates(day) ==
  {PartialFill("o1", 2, 1, day), FinalFill("o1", 2, 2, 3, day), Fee(None, -1, day)}

FeedUniverse == UNION {FeedTemplates(day) : day \in FeedDays}

\* The records an account can hold past the lower time bound of the request.
FeedUniverseAfter(lower) ==
  {r \in FeedUniverse : lower = None \/ r.day >= lower[1].date}

\* The records of the feed after the one the token names.
FeedAfter(token) ==
  IF token = None THEN feed
  ELSE SubSeq(feed, PositionOfId(feed, token[1]) + 1, Len(feed))

\* The pages the feed may answer a request with.
FeedPages(token) ==
  IF FeedAfter(token) = <<>> THEN {<<>>}
  ELSE {SubSeq(FeedAfter(token), 1, n) : n \in 1..Len(FeedAfter(token))}

----------------------------------------------------------------------------
(* activites_for_a_day *)

\* activity.time().date_naive().
DateOf(activity) == activity.day

\* Faulty variant: any buffered activity ends the batch.
DateChanged_AnyActivity(acts) == acts # <<>>

\* `start != end` for a non-empty deque: the first and the last activity are
\* of different days.
DateChanged(acts) ==
  acts # <<>> /\ DateOf(acts[1]) # DateOf(acts[Len(acts)])

\* Faulty variant: the activities of the first day and of earlier days are taken.
SameDay_OnOrBefore(acts) ==
  SelectSeq(acts, LAMBDA activity : DateOf(activity) <= DateOf(acts[1]))

\* activities.into_iter().partition(|activity| date == start): the first half.
SameDay(acts) ==
  SelectSeq(acts, LAMBDA activity : DateOf(activity) = DateOf(acts[1]))

\* Faulty variant: only the activities of later days are kept.
OtherDay_LaterOnly(acts) ==
  SelectSeq(acts, LAMBDA activity : DateOf(activity) > DateOf(acts[1]))

\* The second half of the partition.
OtherDay(acts) ==
  SelectSeq(acts, LAMBDA activity : DateOf(activity) # DateOf(acts[1]))

----------------------------------------------------------------------------
(* Spec: activities_list, from the request for the account to its return.   *)
(*   pc = "start"     before client.issue::<account::Get>                    *)
(*   pc = "call"      at the top of the driver's loop                        *)
(*   pc = "batching"  at the top of the loop of activites_for_a_day          *)
(*   pc = "returned"  activites_for_a_day has returned Ok                    *)
(*   pc = "done"      activities_list has returned Ok                        *)
(*   any other value  activities_list has returned that error, or panicked  *)

FnIdle ==
  /\ fn_pc = "idle"
  /\ fn_input = <<>>
  /\ fn_merged = NotApplied
  /\ fn_remerged = NotApplied
  /\ fn_reconciled = NotApplied
  /\ fn_printed = NotApplied

\* The values of the --begin option the runs are started with.
Begins == {None, Some(2)}

\* Utc.from_utc_datetime(&begin.and_hms_opt(0, 0, 0).unwrap()).
Midnight(begin) == [date |-> begin, hms |-> <<0, 0, 0>>]

\* begin.map(|begin| ...midnight of begin...).
AfterOf(begin) == IF begin = None THEN None ELSE Some(Midnight(begin[1]))

\* The request is built (direction Ascending, after from --begin, no page
\* token) before the first call to the client.
Init ==
  /\ force_separate_fees \in BOOLEAN
  /\ debug_assertions \in BOOLEAN
  /\ direction = "Ascending"
  /\ after \in {AfterOf(begin) : begin \in Begins}
  /\ feed \in {Numbered(s) : s \in SeqsUpTo(FeedUniverseAfter(after), MaxFeed)}
  /\ page_token = None
  /\ activities = <<>>
  /\ same_day = <<>>
  /\ other_day = <<>>
  /\ unprocessed = <<>>
  /\ pc = "start"
  /\ stdout = <<>>
  /\ fetches = <<>>
  /\ batches = <<>>
  /\ FnIdle

\* What no statement of activities_list or activites_for_a_day assigns: the
\* options, the build profile, the feed, and the direction and after fields
\* of the request.
Flags == <<force_separate_fees, debug_assertions, feed, direction, after>>

\* client.issue::<account::Get>(&()) succeeds.
AccountInfo ==
  /\ pc = "start"
  /\ pc' = "call"
  /\ UNCHANGED <<Flags, page_token, activities, same_day, other_day,
                 unprocessed, stdout, fetches, batches, fn_vars>>

\* client.issue::<account::Get>(&()) fails.
AccountInfoFails ==
  /\ pc = "start"
  /\ pc' = "failed to retrieve account information"
  /\ UNCHANGED <<Flags, page_token, activities, same_day, other_day,
                 unprocessed, stdout, fetches, batches, fn_vars>>

\* The driver calls activites_for_a_day(client, unprocessed, request):
\* unprocessed is moved into the call.
Call ==
  /\ pc = "call"
  /\ activities' = unprocessed
  /\ unprocessed' = <<>>
  /\ pc' = "batching"
  /\ UNCHANGED <<Flags, page_token, same_day, other_day, stdout, fetches,
                 batches, fn_vars>>

\* activites_for_a_day: the date changed between the first and the last
\* activity, the deque is partitioned and returned.
DayBoundary ==
  /\ pc = "batching"
  /\ DateChanged(activities)
  /\ same_day' = SameDay(activities)
  /\ other_day' = OtherDay(activities)
  /\ activities' = <<>>
  /\ pc' = "returned"
  /\ UNCHANGED <<Flags, page_token, unprocessed, stdout, fetches, batches, fn_vars>>

\* Faulty variant: the token names the first record of the page.
NextPageToken_First(fetched) == Some(fetched[1].id)

\* request.page_token = Some(last.id().to_string()).
NextPageToken(fetched) == Some(fetched[Len(fetched)].id)

\* Faulty variant: a page is fetched whatever the buffer holds.
FetchPage_ReadsAhead ==
  /\ pc = "batching"
  /\ \E fetched \in FeedPages(page_token) :
       /\ fetched # <<>>
       /\ page_token' = NextPageToken(fetched)
       /\ activities' = activities \o fetched
       /\ fetches' = Append(fetches, Ids(fetched))
  /\ UNCHANGED <<Flags, same_day, other_day, unprocessed, pc, stdout, batches, fn_vars>>

\* activites_for_a_day: a page is fetched and it holds records.
FetchPage ==
  /\ pc = "batching"
  /\ ~DateChanged(activities)
  /\ \E fetched \in FeedPages(page_token) :
       /\ fetched # <<>>
       /\ page_token' = NextPageToken(fetched)
       /\ activities' = activities \o fetched
       /\ fetches' = Append(fetches, Ids(fetched))
  /\ UNCHANGED <<Flags, same_day, other_day, unprocessed, pc, stdout, batches, fn_vars>>

\* Faulty variant: at the end of the stream the buffer is returned as overflow.
FetchEmptyPage_BufferAsOverflow ==
  /\ pc = "batching"
  /\ ~DateChanged(activities)
  /\ <<>> \in FeedPages(page_token)
  /\ same_day' = <<>>
  /\ other_day' = activities
  /\ activities' = <<>>
  /\ fetches' = Append(fetches, <<>>)
  /\ pc' = "returned"
  /\ UNCHANGED <<Flags, page_token, unprocessed, stdout, batches, fn_vars>>

\* activites_for_a_day: a page is fetched and it is empty.
FetchEmptyPage ==
  /\ pc = "batching"
  /\ ~DateChanged(activities)
  /\ <<>> \in FeedPages(page_token)
  /\ same_day' = activities
  /\ other_day' = <<>>
  /\ activities' = <<>>
  /\ fetches' = Append(fetches, <<>>)
  /\ pc' = "returned"
  /\ UNCHANGED <<Flags, page_token, unprocessed, stdout, batches, fn_vars>>

\* Faulty variant: the buffered activities are printed before the error is returned.
FetchFails_FlushesBuffer ==
  /\ pc = "batching"
  /\ ~DateChanged(activities)
  /\ stdout' = stdout \o PrintAll(MapFrom(activities)).out
  /\ activities' = <<>>
  /\ pc' = "failed to retrieve account activities"
  /\ UNCHANGED <<Flags, page_token, same_day, other_day, unprocessed,
                 fetches, batches, fn_vars>>

\* activites_for_a_day: the fetch fails, `?` returns the error through
\* activities_list.
FetchFails ==
  /\ pc = "batching"
  /\ ~DateChanged(activities)
  /\ activities' = <<>>
  /\ pc' = "failed to retrieve account activities"
  /\ UNCHANGED <<Flags, page_token, same_day, other_day, unprocessed, stdout,
                 fetches, batches, fn_vars>>

\* activities_list: `if activities.is_empty() { assert!(remainder.is_empty()); break }`.
DriverBreak ==
  /\ pc = "returned"
  /\ same_day = <<>>
  /\ pc' = IF other_day = <<>> THEN "done" ELSE "panicked"
  /\ UNCHANGED <<Flags, page_token, activities, same_day, other_day,
                 unprocessed, stdout, fetches, batches, fn_vars>>

\* What the rest of the loop body does with a batch: the error or panic it
\* ends with ("" for none) and what it prints.
ProcessBatch(batch, force, debug) ==
  LET merged == merge_partial_fills(batch, debug)
      reconciled == Reconcile(merged.activities, force)
      printed == PrintAll(reconciled.value)
  IN IF merged.panicked THEN [end |-> "panicked", out |-> <<>>]
     ELSE IF ~reconciled.ok THEN [end |-> reconciled.error, out |-> <<>>]
     ELSE IF ~printed.ok THEN [end |-> printed.error, out |-> printed.out]
     ELSE [end |-> "", out |-> printed.out]

\* activities_list: the loop body for a non-empty batch: request and
\* unprocessed are updated, the batch is merged, associated and printed.
DriverBatch ==
  /\ pc = "returned"
  /\ same_day # <<>>
  /\ unprocessed' = other_day
  /\ batches' = Append(batches, Ids(same_day))
  /\ LET result == ProcessBatch(same_day, force_separate_fees, debug_assertions)
     IN /\ stdout' = stdout \o result.out
        /\ pc' = IF result.end = "" THEN "call" ELSE result.end
  /\ same_day' = <<>>
  /\ other_day' = <<>>
  /\ UNCHANGED <<Flags, page_token, activities, fetches, fn_vars>>

Next ==
  \/ AccountInfo
  \/ AccountInfoFails
  \/ Call
  \/ DayBoundary
  \/ FetchPage
  \/ FetchEmptyPage
  \/ FetchFails
  \/ DriverBreak
  \/ DriverBatch

Spec == Init /\ [][Next]_vars

----------------------------------------------------------------------------
(* Claims about merge_partial_fills, checked under SpecFn. *)

MergeReturned == fn_pc # "input" /\ ~fn_merged.panicked

\* The (order_id, price) pairs of the trades of a batch.
FillKeys(acts) ==
  {<<acts[k].order_id, acts[k].price>> : k \in {h \in 1..Len(acts) : IsTrade(acts[h])}}

\* The positions of the trades of one order at one price.
FillsOf(acts, key) ==
  {k \in 1..Len(acts) : /\ IsTrade(acts[k])
                        /\ acts[k].order_id = key[1]
                        /\ acts[k].price = key[2]}

FinalFillsOf(acts, key) == {k \in FillsOf(acts, key) : acts[k].unfilled_quantity = 0}

QuantityOf(acts, key) ==
  SumSeq([k \in 1..Len(acts) |-> IF k \in FillsOf(acts, key) THEN acts[k].quantity ELSE 0])

\* A partial fill that has a final fill of its order and price in the batch.
HasFinalFill(acts, k) ==
  /\ IsTrade(acts[k])
  /\ acts[k].unfilled_quantity # 0
  /\ FinalFillsOf(acts, <<acts[k].order_id, acts[k].price>>) # {}

\* C1: when the fills of one order at one price hold exactly one final fill,
\* the merged batch holds exactly one trade of that order and price; its
\* quantity is the sum of the quantities of all those fills and its
\* cumulative_quantity and unfilled_quantity are those of the final fill.
C1_MergeSumsIntoFinalFill ==
  MergeReturned =>
    \A key \in FillKeys(fn_input) :
      Cardinality(FinalFillsOf(fn_input, key)) = 1 =>
        LET final == fn_input[CHOOSE k \in FinalFillsOf(fn_input, key) : TRUE]
            out == FillsOf(fn_merged.activities, key)
        IN /\ Cardinality(out) = 1
           /\ \A k \in out :
                /\ fn_merged.activities[k].quantity = QuantityOf(fn_input, key)
                /\ fn_merged.activities[k].cumulative_quantity = final.cumulative_quantity
                /\ fn_merged.activities[k].unfilled_quantity = final.unfilled_quantity
                /\ fn_merged.activities[k].id = final.id

\* C1 witness: merge returned on a batch with one final fill that has a
\* partial fill before it and another one after it.
C1_Witness ==
  /\ MergeReturned
  /\ \E key \in FillKeys(fn_input) :
       /\ Cardinality(FinalFillsOf(fn_input, key)) = 1
       /\ \E f \in FinalFillsOf(fn_input, key), a, b \in FillsOf(fn_input, key) :
            a < f /\ f < b

\* C2: merge_partial_fills applied to its own output returns it unchanged.
C2_MergeIdempotent ==
  fn_pc \in {"remerged", "reconciled", "printed", "failed"} =>
    /\ ~fn_remerged.panicked
    /\ fn_remerged.activities = fn_merged.activities

\* C2 witness: the second application has run on the output of a first one
\* that merged a partial fill and left another partial fill unmerged.
C2_Witness ==
  /\ fn_pc = "remerged"
  /\ Len(fn_merged.activities) < Len(fn_input)
  /\ \E k \in 1..Len(fn_merged.activities) :
       /\ IsTrade(fn_merged.activities[k])
       /\ fn_merged.activities[k].unfilled_quantity # 0

\* C3: the merged batch is the input batch without the partial fills that have
\* a final fill, in the input order, and a record differs from its input only
\* in the quantity of a final fill that absorbed a partial fill.
C3_MergeFrame ==
  MergeReturned =>
    /\ Ids(fn_merged.activities)
         = SelectSeq(Ids(fn_input), LAMBDA id : ~HasFinalFill(fn_input, id))
    /\ \A k \in 1..Len(fn_merged.activities) :
         LET merged == fn_merged.activities[k]
             before == fn_input[merged.id]
         IN \/ merged = before
            \/ /\ IsTrade(before)
               /\ before.unfilled_quantity = 0
               /\ merged = [before EXCEPT !.quantity = merged.quantity]
               /\ \E h \in 1..Len(fn_input) :
                    /\ HasFinalFill(fn_input, h)
                    /\ fn_input[h].order_id = before.order_id
                    /\ fn_input[h].price = before.price

\* C3 witness: merge returned on a batch in which a partial fill was absorbed,
\* with a non-trade record and a partial fill of the same order at another
\* price next to it.
C3_Witness ==
  /\ MergeReturned
  /\ \E a, b, c \in 1..Len(fn_input) :
       /\ HasFinalFill(fn_input, a)
       /\ IsNonTrade(fn_input[b])
       /\ IsTrade(fn_input[c]) /\ ~HasFinalFill(fn_input, c)
       /\ fn_input[c].order_id = fn_input[a].order_id

----------------------------------------------------------------------------
(* Claims about the association step and the printing of fees, under SpecFn. *)

ReconcileApplied == fn_pc \in {"reconciled", "printed", "failed"}

ReconcileOk == ReconcileApplied /\ fn_reconciled.ok

AssociateOk == ReconcileOk /\ ~force_separate_fees

PrintApplied == ReconcileOk /\ fn_pc \in {"printed", "failed"}

IsFee(a) == IsNonTrade(a) /\ a.type_ = "Fee"

IsTafFee(a) == IsFee(a) /\ a.description # None /\ TAF_RE(a.description[1]) # None

IsRegFee(a) ==
  /\ IsFee(a) /\ a.description # None
  /\ TAF_RE(a.description[1]) = None /\ REG_RE(a.description[1]) # None

IsAdrFee(a) ==
  /\ IsFee(a) /\ a.description # None
  /\ TAF_RE(a.description[1]) = None /\ REG_RE(a.description[1]) = None
  /\ ADR_RE(a.description[1])

IsUnclassifiableFee(a) == IsFee(a) /\ ~IsTafFee(a) /\ ~IsRegFee(a) /\ ~IsAdrFee(a)

\* The positions of the trades of a batch that a TAF or REG fee names.
TradesNamedBy(acts, fee) ==
  {j \in 1..Len(acts) :
     /\ IsTrade(acts[j])
     /\ \/ IsTafFee(fee) /\ acts[j].quantity = TAF_RE(fee.description[1])[1]
        \/ IsRegFee(fee) /\ acts[j].price * acts[j].quantity = REG_RE(fee.description[1])[1]}

FeePositions(acts) == {k \in 1..Len(acts) : IsFee(acts[k])}

\* The ids of the trades of a reconciled batch that carry the fee.
CarriedBy(reconciled, fee) ==
  {reconciled[k].trade.id :
     k \in {h \in 1..Len(reconciled) : /\ reconciled[h].tag = "Trade"
                                        /\ fee \in Range(reconciled[h].fees)}}

\* The non-trade records of a reconciled batch.
Standalone(reconciled) ==
  {reconciled[k].non_trade :
     k \in {h \in 1..Len(reconciled) : reconciled[h].tag = "NonTrade"}}

\* C6: after associate_fees_with_trades, a TAF or REG fee that names a trade of
\* the batch is carried by the first such trade in batch order and by no other,
\* is no standalone record any more, wherever it sat relative to the trade, and
\* the fees of one trade are in the order the fee records had in the batch.
C6_FeeAttachedToFirstMatch ==
  AssociateOk =>
    LET batch == fn_merged.activities
        reconciled == fn_reconciled.value
    IN /\ \A k \in FeePositions(batch) :
            TradesNamedBy(batch, batch[k]) # {} =>
              LET first == CHOOSE j \in TradesNamedBy(batch, batch[k]) :
                             \A h \in TradesNamedBy(batch, batch[k]) : j <= h
              IN /\ CarriedBy(reconciled, batch[k]) = {batch[first].id}
                 /\ batch[k] \notin Standalone(reconciled)
       /\ \A r \in 1..Len(reconciled) :
            reconciled[r].tag = "Trade" =>
              \A a, b \in 1..Len(reconciled[r].fees) :
                a < b => PositionOfId(batch, reconciled[r].fees[a].id)
                           < PositionOfId(batch, reconciled[r].fees[b].id)

\* C6 witness: the association succeeded on a batch where one trade got two
\* fees, one that sat before it and one that sat after it.
C6_Witness ==
  /\ AssociateOk
  /\ \E r \in 1..Len(fn_reconciled.value) :
       /\ fn_reconciled.value[r].tag = "Trade"
       /\ Len(fn_reconciled.value[r].fees) = 2
       /\ fn_reconciled.value[r].fees[1].id < fn_reconciled.value[r].trade.id
       /\ fn_reconciled.value[r].trade.id < fn_reconciled.value[r].fees[2].id

\* C7 as claimed: a TAF or REG fee that names no trade of the batch makes
\* associate_fees_with_trades fail.
C7_UnmatchedFeeIsFatal ==
  (ReconcileApplied /\ ~force_separate_fees) =>
    ((\E k \in FeePositions(fn_merged.activities) :
        /\ IsTafFee(fn_merged.activities[k]) \/ IsRegFee(fn_merged.activities[k])
        /\ TradesNamedBy(fn_merged.activities, fn_merged.activities[k]) = {})
      => ~fn_reconciled.ok)

\* C7 as amended: associate_fees_with_trades fails exactly when a fee of the
\* batch is unclassifiable; a TAF or REG fee that names no trade of the batch
\* is no error, it stays a standalone record carried by no trade.
C7_UnmatchedFeeStaysStandalone ==
  (ReconcileApplied /\ ~force_separate_fees) =>
    LET batch == fn_merged.activities
    IN /\ fn_reconciled.ok
            <=> (\A k \in FeePositions(batch) : ~IsUnclassifiableFee(batch[k]))
       /\ fn_reconciled.ok =>
            \A k \in FeePositions(batch) :
              (/\ IsTafFee(batch[k]) \/ IsRegFee(batch[k])
               /\ TradesNamedBy(batch, batch[k]) = {})
                => /\ batch[k] \in Standalone(fn_reconciled.value)
                   /\ CarriedBy(fn_reconciled.value, batch[k]) = {}

\* C7 witness: the association succeeded on a batch that holds a trade and a
\* TAF or REG fee naming no trade.
C7_Witness ==
  /\ AssociateOk
  /\ \E k \in FeePositions(fn_merged.activities), t \in 1..Len(fn_merged.activities) :
       /\ IsTrade(fn_merged.activities[t])
       /\ IsTafFee(fn_merged.activities[k]) \/ IsRegFee(fn_merged.activities[k])
       /\ TradesNamedBy(fn_merged.activities, fn_merged.activities[k]) = {}

\* The printed blocks of a record.
BlocksOf(id) == {k \in 1..Len(fn_printed.out) : fn_printed.out[k].id = id}

\* C8: an ADR fee is carried by no trade and is still a standalone record after
\* the association step, and the block printed for it is a block of its own
\* whose posting goes to the brokerage fee account.
C8_AdrFeeStandalone ==
  /\ ReconcileOk =>
       \A k \in FeePositions(fn_merged.activities) :
         IsAdrFee(fn_merged.activities[k]) =>
           /\ fn_merged.activities[k] \in Standalone(fn_reconciled.value)
           /\ CarriedBy(fn_reconciled.value, fn_merged.activities[k]) = {}
  /\ PrintApplied =>
       \A k \in FeePositions(fn_merged.activities) :
         IsAdrFee(fn_merged.activities[k]) =>
           /\ fn_pc = "printed" => Cardinality(BlocksOf(fn_merged.activities[k].id)) = 1
           /\ \A b \in BlocksOf(fn_merged.activities[k].id) :
                /\ fn_printed.out[b].kind = "fee"
                /\ fn_printed.out[b].postings[1]
                     = [account |-> brokerage_fee_account,
                        amount |-> -(fn_merged.activities[k].net_amount)]
                /\ fn_printed.out[b].postings[2] = [account |-> brokerage_account]

\* C8 witness: a batch with an ADR fee and a trade was associated and printed.
C8_Witness ==
  /\ fn_pc = "printed" /\ ~force_separate_fees
  /\ \E k, t \in 1..Len(fn_merged.activities) :
       IsAdrFee(fn_merged.activities[k]) /\ IsTrade(fn_merged.activities[t])

UnclassifiableFees(acts) ==
  {k \in FeePositions(acts) : IsUnclassifiableFee(acts[k])}

\* The account the TAF, REG, ADR precedence gives a classifiable fee.
AccountByPrecedence(fee) ==
  IF IsTafFee(fee) THEN finra_taf_account
  ELSE IF IsRegFee(fee) THEN sec_fee_account
  ELSE brokerage_fee_account

\* C9: a batch with a fee that has no description, or one matching none of the
\* patterns, is never printed to its end and no block is printed for that fee.
\* With association the association step fails, and it fails exactly when
\* classify_fee rejects a fee of the batch; with force_separate_fees the
\* printing loop fails, at that fee with the error of classify_fee unless an
\* earlier record of the batch failed to print.  Fees carried by trades are TAF
\* or REG fees, and every printed fee posting goes to the account of the TAF,
\* REG, ADR precedence.
C9_UnclassifiableFeeIsFatal ==
  /\ fn_pc = "printed" => UnclassifiableFees(fn_input) = {}
  /\ (ReconcileApplied /\ ~force_separate_fees) =>
       /\ fn_reconciled.ok
            <=> \A k \in FeePositions(fn_merged.activities) :
                  classify_fee(fn_merged.activities[k]).ok
       /\ UnclassifiableFees(fn_merged.activities) # {} =>
            ~fn_reconciled.ok /\ fn_pc = "failed" /\ fn_printed = NotApplied
  /\ ReconcileOk =>
       \A r \in 1..Len(fn_reconciled.value) :
         fn_reconciled.value[r].tag = "Trade" =>
           \A f \in Range(fn_reconciled.value[r].fees) : IsTafFee(f) \/ IsRegFee(f)
  /\ (PrintApplied /\ force_separate_fees) =>
       LET batch == fn_merged.activities
           bad == UnclassifiableFees(batch)
       IN bad # {} =>
            LET first == CHOOSE k \in bad : \A h \in bad : k <= h
            IN /\ ~fn_printed.ok
               /\ \A k \in bad : BlocksOf(batch[k].id) = {}
               /\ \A b \in 1..Len(fn_printed.out) :
                    PositionOfId(batch, fn_printed.out[b].id) < first
               /\ \/ fn_printed.error = classify_fee(batch[first]).error
                  \/ \E h \in 1..(first - 1) : ~PrintActivity(From(batch[h])).ok
  /\ PrintApplied =>
       \A b \in 1..Len(fn_printed.out) :
         LET block == fn_printed.out[b]
             record == fn_input[block.id]
         IN /\ block.kind = "fee" =>
                 block.postings[1].account = AccountByPrecedence(record)
            /\ block.kind = "trade" =>
                 \E r \in 1..Len(fn_reconciled.value) :
                   /\ fn_reconciled.value[r].tag = "Trade"
                   /\ fn_reconciled.value[r].trade.id = block.id
                   /\ Len(block.postings) = Len(fn_reconciled.value[r].fees) + 2
                   /\ \A f \in 1..Len(fn_reconciled.value[r].fees) :
                        block.postings[f + 1].account
                          = AccountByPrecedence(fn_reconciled.value[r].fees[f])

\* C9 witness: with force_separate_fees the printing loop printed a block and
\* then failed on a fee without a usable description.
C9_Witness ==
  /\ PrintApplied /\ force_separate_fees /\ fn_pc = "failed"
  /\ Len(fn_printed.out) >= 1
  /\ UnclassifiableFees(fn_merged.activities) # {}
  /\ fn_printed.error = "fee activity does not have a description"

\* C10: with force_separate_fees the reconciled batch is the merged batch record
\* by record, in the same number and order, every trade with an empty fee list
\* and every fee a standalone record; a printed trade block has no fee posting
\* and a printed fee has a block of its own.
C10_ForceSeparateFees ==
  /\ (ReconcileApplied /\ force_separate_fees) =>
       /\ fn_reconciled.ok
       /\ Len(fn_reconciled.value) = Len(fn_merged.activities)
       /\ \A k \in 1..Len(fn_merged.activities) :
            IF IsTrade(fn_merged.activities[k])
            THEN fn_reconciled.value[k]
                   = [tag |-> "Trade", trade |-> fn_merged.activities[k], fees |-> <<>>]
            ELSE fn_reconciled.value[k]
                   = [tag |-> "NonTrade", non_trade |-> fn_merged.activities[k]]
  /\ (PrintApplied /\ force_separate_fees) =>
       /\ \A b \in 1..Len(fn_printed.out) :
            /\ fn_printed.out[b].kind = "trade" => Len(fn_printed.out[b].postings) = 2
            /\ IsFee(fn_input[fn_printed.out[b].id]) => fn_printed.out[b].kind = "fee"
       /\ fn_pc = "printed" =>
            \A k \in FeePositions(fn_merged.activities) :
              Cardinality(BlocksOf(fn_merged.activities[k].id)) = 1

\* C10 witness: with force_separate_fees a batch was printed that holds a trade
\* and a TAF fee naming it.
C10_Witness ==
  /\ fn_pc = "printed" /\ force_separate_fees
  /\ \E k \in FeePositions(fn_merged.activities) :
       /\ IsTafFee(fn_merged.activities[k])
       /\ TradesNamedBy(fn_merged.activities, fn_merged.activities[k]) # {}

----------------------------------------------------------------------------
(* Claims about activites_for_a_day and the driver, checked under Spec. *)

\* The feed delivers its records in ascending time order.
Ascending(acts) ==
  \A i, j \in 1..Len(acts) : i < j => DateOf(acts[i]) <= DateOf(acts[j])

OneDay(acts) == \A i, j \in 1..Len(acts) : DateOf(acts[i]) = DateOf(acts[j])

\* C4 as claimed: in every result of activites_for_a_day all "ready" activities
\* are of one day and no "overflow" activity is of that day, whatever the
\* order of the records of the feed.
C4_ReadyIsOneDay ==
  pc = "returned" =>
    /\ OneDay(same_day)
    /\ \A k \in 1..Len(other_day) : DateOf(other_day[k]) # DateOf(same_day[1])

\* C4 as amended: a day-boundary result (the one with an overflow) holds in
\* "ready" the activities of the day of the first buffered one and in
\* "overflow" the others, both non-empty, whatever the order of the feed; an
\* end-of-stream result has no overflow, the first and the last "ready"
\* activity are of one day, and all of them are when the feed is ascending.
C4_ReadyIsOneDayWhenAscending ==
  pc = "returned" =>
    /\ other_day # <<>> =>
         /\ same_day # <<>>
         /\ OneDay(same_day)
         /\ \A k \in 1..Len(other_day) : DateOf(other_day[k]) # DateOf(same_day[1])
    /\ other_day = <<>> => ~DateChanged(same_day)
    /\ Ascending(feed) => OneDay(same_day)

\* C4 witness: a day-boundary result taken from a buffer that was not in
\* ascending order.
C4_Witness ==
  /\ pc = "returned"
  /\ other_day # <<>>
  /\ Len(same_day) >= 1
  /\ \E k \in 1..Len(other_day) : DateOf(other_day[k]) < DateOf(same_day[1])

\* The days of the records of a batch (a sequence of ids).
DaysOf(ids) == {DateOf(feed[ids[k]]) : k \in 1..Len(ids)}

\* C5: with an ascending feed no two batches handed to the merge step share a
\* day, and when the run ends without error every day of the feed has been
\* handed over in one batch that holds all its records.
C5_DayNeverSplit ==
  Ascending(feed) =>
    /\ \A i, j \in 1..Len(batches) :
         i < j => DaysOf(batches[i]) \cap DaysOf(batches[j]) = {}
    /\ pc = "done" =>
         \A r \in 1..Len(feed) :
           \E i \in 1..Len(batches) :
             Range(batches[i]) = {q \in 1..Len(feed) : DateOf(feed[q]) = DateOf(feed[r])}

\* C5 witness: a run over an ascending feed ended without error in which one
\* page held records of two days and one day came in two pages.
C5_Witness ==
  /\ pc = "done"
  /\ Ascending(feed)
  /\ \E p \in 1..Len(fetches) : Cardinality(DaysOf(fetches[p])) = 2
  /\ \E p, q \in 1..Len(fetches) : p < q /\ DaysOf(fetches[p]) \cap DaysOf(fetches[q]) # {}

----------------------------------------------------------------------------
(* Claims about the driver loop as a whole, checked under Spec. *)

\* The error activities_list returns when a page fetch fails.
FetchError == "failed to retrieve account activities"

\* The records of the feed a sequence of ids names.
RecordsOf(ids) == [k \in 1..Len(ids) |-> feed[ids[k]]]

\* The ids of the records the fetches so far have returned.
FetchedIds == UNION {Range(fetches[p]) : p \in 1..Len(fetches)}

\* The ids of the records handed over in a "ready" batch so far.
BatchedIds == UNION {Range(batches[b]) : b \in 1..Len(batches)}

\* What the loop body prints for the batches, one after the other.
RECURSIVE RenderedOf(_)
RenderedOf(bs) ==
  IF bs = <<>> THEN <<>>
  ELSE RenderedOf(SubSeq(bs, 1, Len(bs) - 1))
         \o ProcessBatch(RecordsOf(bs[Len(bs)]), force_separate_fees, debug_assertions).out

\* C11: a failed page fetch ends the run with the fetch error: the failing
\* step prints nothing and hands over no batch, what is printed then is what
\* the earlier batches printed, no record fetched but not handed over has a
\* block, and no step (no fetch, no printing) follows the error.
C11_FetchFailureIsFinal ==
  /\ [](pc = FetchError =>
          /\ stdout = RenderedOf(batches)
          /\ \A b \in 1..Len(stdout) : stdout[b].id \in BatchedIds)
  /\ [][/\ pc = FetchError => UNCHANGED vars
        /\ (pc # FetchError /\ pc' = FetchError) =>
              /\ pc = "batching"
              /\ stdout' = stdout
              /\ fetches' = fetches
              /\ batches' = batches]_vars

\* C11 witness: the fetch failed after an earlier batch was printed, while a
\* record that had been fetched was still waiting in the buffer.
C11_Witness ==
  /\ pc = FetchError
  /\ stdout # <<>>
  /\ FetchedIds \ BatchedIds # {}

\* The page the last fetch returned.
LastFetched == fetches[Len(fetches)]

\* C12: the cursor only moves forward: a step that fetches a non-empty page
\* leaves page_token at the id of the last record of that page, no other step
\* (an empty page, a partition at a day boundary, the driver) changes it, it
\* never goes back to none or to a record earlier in the feed, and direction
\* and after keep the values the request was built with.
C12_CursorOnlyAdvances ==
  [][/\ direction' = direction
     /\ after' = after
     /\ (fetches' # fetches /\ LastFetched' # <<>>) =>
           page_token' = Some(LastFetched'[Len(LastFetched')])
     /\ (fetches' # fetches /\ LastFetched' = <<>>) => page_token' = page_token
     /\ fetches' = fetches => page_token' = page_token
     /\ (pc = "batching" /\ DateChanged(activities)) => page_token' = page_token
     /\ page_token # None =>
           /\ page_token' # None
           /\ PositionOfId(feed, page_token'[1]) >= PositionOfId(feed, page_token[1])]_vars

\* C12 witness: a run with a lower time bound fetched a page of several
\* records, partitioned the buffer at a day boundary, fetched the empty page
\* and ended with the cursor at the last record of the feed.
C12_Witness ==
  /\ pc = "done"
  /\ after # None
  /\ direction = "Ascending"
  /\ Len(batches) >= 2
  /\ \E p \in 1..Len(fetches) : Len(fetches[p]) >= 2
  /\ LastFetched = <<>>
  /\ page_token = Some(feed[Len(feed)].id)

----------------------------------------------------------------------------
(* SpecPrint: print_trade applied to every trade of the orders, prices and  *)
(* quantities below with every list of at most MaxFees attached fees.        *)

\* Most fees attached to the trade given to print_trade.
MaxFees == 2

PrintOrders == {"o1", "o2", "o3", "o4"}

PrintPrices == {2, 3}

PrintQuantities == {1, 2, 3}

PrintTrades ==
  {FinalFill(order_id, price, quantity, quantity, 1) :
     order_id \in PrintOrders, price \in PrintPrices, quantity \in PrintQuantities}

\* Activity::Trade(trade, fees) with the records numbered in the order given.
TradeWithFees(trade, fees) ==
  LET records == Numbered(<<trade>> \o fees)
  IN [tag |-> "Trade", trade |-> records[1], fees |-> Tail(records)]

PrintInit ==
  /\ force_separate_fees = FALSE
  /\ debug_assertions = FALSE
  /\ \E trade \in PrintTrades, fees \in SeqsUpTo(FeeTemplates(1), MaxFees) :
       fn_input = <<TradeWithFees(trade, fees)>>
  /\ fn_pc = "trade"
  /\ fn_merged = NotApplied
  /\ fn_remerged = NotApplied
  /\ fn_reconciled = NotApplied
  /\ fn_printed = NotApplied
  /\ PipelineIdle

\* print_trade(trade, fees, ...).
PrintTrade ==
  /\ fn_pc = "trade"
  /\ fn_printed' = print_trade(fn_input[1].trade, fn_input[1].fees)
  /\ fn_pc' = IF fn_printed'.ok THEN "trade printed" ELSE "trade failed"
  /\ UNCHANGED <<force_separate_fees, debug_assertions, fn_input, fn_merged,
                 fn_remerged, fn_reconciled, pipeline_vars>>

PrintNext == PrintTrade

SpecPrint == PrintInit /\ [][PrintNext]_vars

----------------------------------------------------------------------------
(* Claims about print_trade, checked under SpecPrint. *)

TradePrinted == fn_pc = "trade printed"

\* The trade given to print_trade, its fees, and the block printed.
PrintedTrade == fn_input[1].trade

PrintedFees == fn_input[1].fees

PrintedBlock == fn_printed.out[1]

\* The amount of the last posting of the block, the one to the brokerage account.
CashPosting == PrintedBlock.postings[Len(PrintedBlock.postings)]

\* C13 as claimed: without fees a Buy and a ShortSell trade post
\* -price x quantity to the brokerage account, a Sell trade +price x quantity.
C13_ShortSellReducesCash ==
  (TradePrinted /\ PrintedFees = <<>>) =>
    /\ CashPosting.account = brokerage_account
    /\ PrintedTrade.side \in {"Buy", "ShortSell"} =>
         CashPosting.amount = -(PrintedTrade.price * PrintedTrade.quantity)
    /\ PrintedTrade.side = "Sell" =>
         CashPosting.amount = PrintedTrade.price * PrintedTrade.quantity

\* C13 as amended: the sign of the brokerage posting follows the side: without
\* fees a Buy trade posts -price x quantity (cash goes down), a Sell and a
\* ShortSell trade post +price x quantity (cash goes up); the investment
\* posting carries the opposite sign on its share count.
C13_SignFollowsSide ==
  TradePrinted =>
    /\ CashPosting.account = brokerage_account
    /\ PrintedBlock.postings[1].account = investment_account
    /\ PrintedTrade.side = "Buy" =>
         /\ PrintedBlock.postings[1].shares = PrintedTrade.quantity
         /\ PrintedFees = <<>> =>
              CashPosting.amount = -(PrintedTrade.price * PrintedTrade.quantity)
    /\ PrintedTrade.side \in {"Sell", "ShortSell"} =>
         /\ PrintedBlock.postings[1].shares = -(PrintedTrade.quantity)
         /\ PrintedFees = <<>> =>
              CashPosting.amount = PrintedTrade.price * PrintedTrade.quantity

\* C13 witness: a ShortSell trade without fees has been printed.
C13_Witness ==
  /\ TradePrinted
  /\ PrintedTrade.side = "ShortSell"
  /\ PrintedFees = <<>>
  /\ CashPosting.amount > 0

----------------------------------------------------------------------------
(* Further claims about merge_partial_fills, checked under SpecFn. *)

MergeApplied == fn_pc # "input"

\* Every trade of the batch has quantity <= cumulative_quantity.
WithinCumulative(acts) ==
  \A k \in 1..Len(acts) :
    IsTrade(acts[k]) => acts[k].quantity <= acts[k].cumulative_quantity

\* The keys of the batch that have a final fill, and the first final fill of
\* a key: the one the partial fills of the key are merged into.
FinalKeys(acts) == {key \in FillKeys(acts) : FinalFillsOf(acts, key) # {}}

FirstFinalFill(acts, key) ==
  CHOOSE k \in FinalFillsOf(acts, key) : \A h \in FinalFillsOf(acts, key) : k <= h

\* The quantity the first final fill of a key ends with when every partial
\* fill of the key is added to it.
AbsorbedQuantity(acts, key) ==
  acts[FirstFinalFill(acts, key)].quantity
    + SumSeq([k \in 1..Len(acts) |->
                IF k \in FillsOf(acts, key) /\ acts[k].unfilled_quantity # 0
                THEN acts[k].quantity ELSE 0])

\* The final fills account for their partial fills: no first final fill is
\* pushed past its cumulative_quantity.
Accounted(acts) ==
  \A key \in FinalKeys(acts) :
    AbsorbedQuantity(acts, key) <= acts[FirstFinalFill(acts, key)].cumulative_quantity

PartialFills(acts) ==
  {k \in 1..Len(acts) : IsTrade(acts[k]) /\ acts[k].unfilled_quantity # 0}

\* C15: a partial fill is removed by the merge exactly when the batch holds a
\* final fill of its order at its price; every other partial fill is in the
\* result as it was given (it is merged neither into another partial fill nor
\* into a final fill at another price, which stays as given too), and a batch
\* without a partial fill to merge raises no error.
C15_OrphanPartialIsKept ==
  /\ (MergeApplied /\ \A k \in PartialFills(fn_input) : ~HasFinalFill(fn_input, k)) =>
       /\ ~fn_merged.panicked
       /\ fn_merged.activities = fn_input
  /\ MergeReturned =>
       /\ \A k \in PartialFills(fn_input) :
            /\ HasFinalFill(fn_input, k) <=>
                 fn_input[k].id \notin Range(Ids(fn_merged.activities))
            /\ ~HasFinalFill(fn_input, k) => fn_input[k] \in Range(fn_merged.activities)
       /\ \A k \in PartialFills(fn_merged.activities) :
            fn_merged.activities[k] = fn_input[fn_merged.activities[k].id]
       /\ \A k \in 1..Len(fn_input) :
            (/\ IsTrade(fn_input[k])
             /\ fn_input[k].unfilled_quantity = 0
             /\ \A h \in PartialFills(fn_input) :
                  ~(/\ fn_input[h].order_id = fn_input[k].order_id
                    /\ fn_input[h].price = fn_input[k].price))
            => fn_input[k] \in Range(fn_merged.activities)

\* C15 witness: the merge returned on a batch with a partial fill that was
\* merged and a partial fill of the same order at another price, which has a
\* final fill of its order in the batch but none at its price.
C15_Witness ==
  /\ MergeReturned
  /\ \E k, h \in PartialFills(fn_input) :
       /\ HasFinalFill(fn_input, k)
       /\ ~HasFinalFill(fn_input, h)
       /\ fn_input[h].order_id = fn_input[k].order_id
       /\ fn_input[h] \in Range(fn_merged.activities)

----------------------------------------------------------------------------
(* Further claims about print_trade, checked under SpecPrint. *)

\* What a posting of a trade block adds to the block's balance: a posting of
\* shares at a price is worth shares x price.
WorthOf(posting) ==
  IF "shares" \in DOMAIN posting THEN posting.shares * posting.price
  ELSE posting.amount

BalanceOf(block) ==
  SumSeq([k \in 1..Len(block.postings) |-> WorthOf(block.postings[k])])

\* m of the claim: +1 for Buy, -1 for Sell (and for ShortSell).
SideSign(trade) == IF trade.side = "Buy" THEN 1 ELSE -1

\* C16: a printed trade block has the investment posting worth
\* m x price x quantity, one posting of -net_amount per attached fee in the
\* order of the fees, and a brokerage posting of -m x price x quantity minus
\* the fee postings, so that the postings of the block sum to zero.
C16_TradeBlockBalances ==
  TradePrinted =>
    LET m == SideSign(PrintedTrade)
        postings == PrintedBlock.postings
        gross == PrintedTrade.price * PrintedTrade.quantity
        fee_total == SumSeq([k \in 1..Len(PrintedFees) |-> -(PrintedFees[k].net_amount)])
    IN /\ Len(fn_printed.out) = 1
       /\ Len(postings) = Len(PrintedFees) + 2
       /\ WorthOf(postings[1]) = m * gross
       /\ \A k \in 1..Len(PrintedFees) :
            postings[k + 1].amount = -(PrintedFees[k].net_amount)
       /\ CashPosting.amount = (-m * gross) - fee_total
       /\ BalanceOf(PrintedBlock) = 0

\* C16 witness: a Buy trade with two attached fees of different amounts has
\* been printed.
C16_Witness ==
  /\ TradePrinted
  /\ PrintedTrade.side = "Buy"
  /\ Len(PrintedFees) = 2
  /\ PrintedFees[1].net_amount # PrintedFees[2].net_amount

----------------------------------------------------------------------------
(* Further claims about the driver loop, checked under Spec. *)

\* A step that issues a page fetch: one that gets a page, or the failing one.
FetchIssued == pc = "batching" /\ (fetches' # fetches \/ pc' = FetchError)

\* C17: the pipeline is sequential: a fetch is issued only on a buffer that is
\* empty or has its first and last activity on one day, and only when every
\* batch returned so far has gone through the loop body (nothing returned is
\* pending, the output is what the batches handed over print); a returned
\* "ready" batch is followed by its processing, not by a fetch; and a buffer
\* that spans two days yields the next batch without a fetch.
C17_NoReadAhead ==
  /\ [](pc = "batching" =>
          /\ same_day = <<>>
          /\ other_day = <<>>
          /\ unprocessed = <<>>
          /\ stdout = RenderedOf(batches))
  /\ [][/\ FetchIssued =>
             \/ activities = <<>>
             \/ DateOf(activities[1]) = DateOf(activities[Len(activities)])
        /\ (pc = "returned" /\ same_day # <<>>) =>
             /\ fetches' = fetches
             /\ batches' = Append(batches, Ids(same_day))
             /\ stdout' = stdout
                  \o ProcessBatch(same_day, force_separate_fees, debug_assertions).out
             /\ unprocessed' = other_day
        /\ (pc = "batching" /\ DateChanged(activities)) =>
             /\ fetches' = fetches
             /\ pc' = "returned"
             /\ same_day' # <<>>]_vars

\* C17 witness: a second batch was returned after a single fetch: the
\* overflow carried over from the first batch spanned two days.
C17_Witness ==
  /\ pc = "returned"
  /\ same_day # <<>>
  /\ other_day # <<>>
  /\ Len(fetches) = 1
  /\ Len(batches) = 1
  /\ stdout # <<>>

----------------------------------------------------------------------------
(* Further claims about associate_fees_with_trades, checked under SpecFn. *)

\* The record an element of a reconciled batch was made from.
OuterRecord(activity) ==
  IF activity.tag = "Trade" THEN activity.trade ELSE activity.non_trade

OuterRecords(reconciled) ==
  [k \in 1..Len(reconciled) |-> OuterRecord(reconciled[k])]

\* How often the record with the id stands in a sequence of records.
Occurrences(records, id) ==
  Cardinality({k \in 1..Len(records) : records[k].id = id})

\* How often the record with the id stands in the fee lists of the trades.
AttachedOccurrences(reconciled, id) ==
  SumSeq([k \in 1..Len(reconciled) |->
            IF reconciled[k].tag = "Trade"
            THEN Occurrences(reconciled[k].fees, id) ELSE 0])

\* C18: when associate_fees_with_trades succeeds, every fee of the batch is
\* once in the result, as a standalone record or in the fee list of one trade,
\* as it was given; every other record is once in the result and in no fee
\* list; and the records of the result stand in the order of the batch.
C18_AssociationConservesRecords ==
  AssociateOk =>
    LET batch == fn_merged.activities
        reconciled == fn_reconciled.value
        outer == OuterRecords(reconciled)
    IN /\ \A k \in 1..Len(batch) :
            /\ Occurrences(outer, batch[k].id)
                 + AttachedOccurrences(reconciled, batch[k].id) = 1
            /\ ~IsFee(batch[k]) => Occurrences(outer, batch[k].id) = 1
       /\ \A k \in 1..Len(reconciled) :
            /\ outer[k] = batch[PositionOfId(batch, outer[k].id)]
            /\ reconciled[k].tag = "Trade" <=> IsTrade(outer[k])
            /\ reconciled[k].tag = "Trade" =>
                 \A f \in 1..Len(reconciled[k].fees) :
                   /\ reconciled[k].fees[f] \in Range(batch)
                   /\ IsFee(reconciled[k].fees[f])
       /\ \A k, h \in 1..Len(reconciled) :
            k < h => PositionOfId(batch, outer[k].id) < PositionOfId(batch, outer[h].id)

\* C18 witness: the association succeeded on a batch of which one fee went
\* to a trade and another fee stayed a standalone record.
C18_Witness ==
  /\ AssociateOk
  /\ \E k \in 1..Len(fn_reconciled.value) :
       /\ fn_reconciled.value[k].tag = "Trade"
       /\ fn_reconciled.value[k].fees # <<>>
  /\ \E r \in Standalone(fn_reconciled.value) : IsFee(r)

\* The elements of a sequence of sequences, one after the other.
RECURSIVE Flatten(_)
Flatten(ss) == IF ss = <<>> THEN <<>> ELSE Head(ss) \o Flatten(Tail(ss))

\* How often the id stands in a sequence of ids.
Count(ids, id) == Cardinality({k \in 1..Len(ids) : ids[k] = id})

\* The ids of the records the pipeline holds: the batches handed over and
\* the records waiting in a buffer.
HeldIds ==
  Flatten(batches) \o Ids(unprocessed) \o Ids(activities)
    \o Ids(same_day) \o Ids(other_day)

\* The run has not ended with an error or a panic.
ErrorFree == pc \in {"start", "call", "batching", "returned", "done"}

\* C19: the pages fetched are the records of the feed in feed order, each
\* once; as long as no error ends the run every fetched record is held once,
\* in a batch handed over or in a buffer; the overflow of a call is the buffer
\* the next call starts with; and when the run ends without error every
\* record of the feed has been handed over in exactly one batch.
C19_ExactlyOnce ==
  /\ [](/\ Flatten(fetches) = [k \in 1..Len(Flatten(fetches)) |-> feed[k].id]
        /\ ErrorFree =>
             \A id \in Range(Ids(feed)) :
               Count(HeldIds, id) = Count(Flatten(fetches), id)
        /\ pc = "done" =>
             \A id \in Range(Ids(feed)) : Count(Flatten(batches), id) = 1)
  /\ [][/\ (pc = "returned" /\ same_day # <<>>) => unprocessed' = other_day
        /\ pc = "call" => activities' = unprocessed]_vars

\* C19 witness: a run ended without error after a buffer was split at a day
\* boundary and its overflow was joined by a later page.
C19_Witness ==
  /\ pc = "done"
  /\ Len(batches) >= 2
  /\ Len(feed) >= 3
  /\ \E p \in 1..Len(fetches) : Cardinality(DaysOf(fetches[p])) = 2
  /\ \E b \in 1..Len(batches), p, q \in 1..Len(fetches) :
       /\ p < q
       /\ Range(batches[b]) \cap Range(fetches[p]) # {}
       /\ Range(batches[b]) \cap Range(fetches[q]) # {}
       /\ Range(fetches[p]) \ Range(batches[b]) # {}

\* C20: the assertion of the driver holds: a result with an empty "ready" set
\* has an empty overflow, a result with an overflow has a non-empty "ready"
\* set, and the step taken on an empty "ready" set ends the run without a
\* panic; the run ends that way only, on the answer to a fetch that returned
\* the empty page, so that a batch returned at the end of the stream is
\* printed and followed by one more fetch of the empty page.
C20_EndOfStreamAssertionHolds ==
  /\ [](/\ pc = "returned" =>
             /\ same_day = <<>> => other_day = <<>>
             /\ other_day # <<>> => same_day # <<>>
             /\ LastFetched = <<>> => other_day = <<>>
        /\ pc = "done" =>
             /\ LastFetched = <<>>
             /\ same_day = <<>>
             /\ stdout = RenderedOf(batches)
             /\ batches # <<>> =>
                  /\ Len(fetches) >= 2
                  /\ fetches[Len(fetches) - 1] = <<>>)
  /\ [][/\ (pc = "returned" /\ same_day = <<>>) => pc' = "done"
        /\ (pc # "done" /\ pc' = "done") => (pc = "returned" /\ same_day = <<>>)
        /\ (pc = "returned" /\ same_day # <<>>) => pc' # "done"]_vars

\* C20 witness: the run stopped on an empty "ready" set after it had printed
\* a batch that was returned at the end of the stream.
C20_Witness ==
  /\ pc = "done"
  /\ stdout # <<>>
  /\ Len(fetches) >= 3
  /\ fetches[Len(fetches) - 1] = <<>>

====
